---- MODULE Spec2Model ----
(***************************************************************************)
(* largest_lyapunov_exponent (src/src/measures.py) as a state machine.     *)
(*                                                                         *)
(* Numbers.  The estimator works on numpy float64 values.  The model keeps *)
(* them exact: a finite scalar is a + b*sqrt(s) with a, b rational and s a *)
(* square-free integer (so that np.linalg.norm and the renormalisation are *)
(* computed without rounding), and the three IEEE special values nan, inf  *)
(* and -inf that numpy produces, instead of raising, for x/0 and log(0).    *)
(* A logarithm is a rational combination of logarithms of primes.          *)
(* Floating-point rounding is not modelled.                                *)
(***************************************************************************)
EXTENDS Integers, Sequences, FiniteSets, TLC

----------------------------------------------------------------------------
(* Rationals: <<n, d>> with d > 0 and gcd(n, d) = 1.                       *)

Abs(n) == IF n < 0 THEN -n ELSE n

RECURSIVE GCD(_, _)
GCD(a, b) == IF b = 0 THEN a ELSE GCD(b, a % b)

Rat(n, d) ==
    LET g == GCD(Abs(n), Abs(d))
        sg == IF d < 0 THEN -1 ELSE 1
    IN  <<sg * (n \div g), Abs(d) \div g>>

RInt(n) == <<n, 1>>
RZero == <<0, 1>>
ROne == <<1, 1>>
RAdd(p, q) == Rat(p[1] * q[2] + q[1] * p[2], p[2] * q[2])
RNeg(p) == <<-p[1], p[2]>>
RSub(p, q) == RAdd(p, RNeg(q))
RMul(p, q) == Rat(p[1] * q[1], p[2] * q[2])
RInv(p) == Rat(p[2], p[1])
RDiv(p, q) == RMul(p, RInv(q))
RSign(p) == IF p[1] > 0 THEN 1 ELSE IF p[1] < 0 THEN -1 ELSE 0
RLess(p, q) == p[1] * q[2] < q[1] * p[2]

(* The largest k with k*k dividing m (m >= 1), by trial division from k. *)
RECURSIVE SquarePartFrom(_, _)
SquarePartFrom(m, k) ==
    IF k * k > m THEN 1
    ELSE IF m % (k * k) = 0 THEN k * SquarePartFrom(m \div (k * k), k)
    ELSE IF m % k = 0 THEN SquarePartFrom(m \div k, k + 1)
    ELSE SquarePartFrom(m, k + 1)

SquarePart(m) == SquarePartFrom(m, 2)

----------------------------------------------------------------------------
(* float64 values.  k is the kind: "fin", "nan", "inf" or "ninf".          *)
(* A finite value is a + b*sqrt(s); b = <<0,1>> goes with s = 1.           *)

Fin(a, b, s) ==
    IF b = RZero \/ s = 1
    THEN [k |-> "fin", a |-> IF s = 1 THEN RAdd(a, b) ELSE a, b |-> RZero, s |-> 1]
    ELSE [k |-> "fin", a |-> a, b |-> b, s |-> s]

FRat(q) == Fin(q, RZero, 1)
FInt(n) == FRat(RInt(n))
NaN == [k |-> "nan", a |-> RZero, b |-> RZero, s |-> 1]
PosInf == [k |-> "inf", a |-> RZero, b |-> RZero, s |-> 1]
NegInf == [k |-> "ninf", a |-> RZero, b |-> RZero, s |-> 1]
FZero == FInt(0)

IsFinite(x) == x.k = "fin"

(* q * sqrt(m) for an integer m >= 1, with the square part of m taken out. *)
Radical(q, m) ==
    LET k == SquarePart(m)
    IN  Fin(RZero, RMul(q, RInt(k)), m \div (k * k))

(* The sign of a + b*sqrt(s). *)
FSign(x) ==
    CASE x.k = "nan" -> 0
      [] x.k = "inf" -> 1
      [] x.k = "ninf" -> -1
      [] OTHER ->
            LET sa == RSign(x.a)
                sb == RSign(x.b)
            IN  IF sb = 0 THEN sa
                ELSE IF sa = 0 \/ sa = sb THEN sb
                ELSE \* opposite signs: compare a^2 with b^2 * s
                    LET a2 == RMul(x.a, x.a)
                        b2 == RMul(RMul(x.b, x.b), RInt(x.s))
                    IN  IF a2 = b2 THEN 0
                        ELSE IF RLess(b2, a2) THEN sa ELSE sb

FNeg(x) ==
    CASE x.k = "nan" -> NaN
      [] x.k = "inf" -> NegInf
      [] x.k = "ninf" -> PosInf
      [] OTHER -> Fin(RNeg(x.a), RNeg(x.b), x.s)

(* The radical two finite values share (1 when both are rational). *)
CommonRadical(x, y) == IF x.s = 1 THEN y.s ELSE x.s
Compatible(x, y) == x.s = 1 \/ y.s = 1 \/ x.s = y.s

FAdd(x, y) ==
    CASE x.k = "nan" \/ y.k = "nan" -> NaN
      [] x.k = "inf" -> IF y.k = "ninf" THEN NaN ELSE PosInf
      [] x.k = "ninf" -> IF y.k = "inf" THEN NaN ELSE NegInf
      [] y.k = "inf" -> PosInf
      [] y.k = "ninf" -> NegInf
      [] OTHER ->
            IF Compatible(x, y)
            THEN Fin(RAdd(x.a, y.a), RAdd(x.b, y.b), CommonRadical(x, y))
            ELSE CHOOSE z \in {} : TRUE   \* outside the exact number domain

FSub(x, y) == FAdd(x, FNeg(y))

FMul(x, y) ==
    CASE x.k = "nan" \/ y.k = "nan" -> NaN
      [] x.k # "fin" \/ y.k # "fin" ->
            LET sg == FSign(x) * FSign(y)
            IN  IF sg = 0 THEN NaN ELSE IF sg > 0 THEN PosInf ELSE NegInf
      [] Compatible(x, y) ->
            LET s == CommonRadical(x, y)
            IN  Fin(RAdd(RMul(x.a, y.a), RMul(RMul(x.b, y.b), RInt(s))),
                    RAdd(RMul(x.a, y.b), RMul(x.b, y.a)), s)
      [] x.a = RZero /\ y.a = RZero ->
            \* b1*sqrt(s1) * b2*sqrt(s2) = b1*b2*sqrt(s1*s2)
            Radical(RMul(x.b, y.b), x.s * y.s)
      [] OTHER -> CHOOSE z \in {} : TRUE      \* outside the exact number domain

(* 1/x for finite non-zero x: the conjugate over a^2 - b^2*s. *)
FInvFin(x) ==
    LET den == RSub(RMul(x.a, x.a), RMul(RMul(x.b, x.b), RInt(x.s)))
    IN  Fin(RDiv(x.a, den), RNeg(RDiv(x.b, den)), x.s)

(* float64 division: x/0 is inf, -inf or nan (a RuntimeWarning, no error). *)
FDiv(x, y) ==
    CASE x.k = "nan" \/ y.k = "nan" -> NaN
      [] x.k # "fin" /\ y.k # "fin" -> NaN
      [] y.k # "fin" -> FZero
      [] FSign(y) = 0 ->
            LET sg == FSign(x)
            IN  IF sg = 0 THEN NaN ELSE IF sg > 0 THEN PosInf ELSE NegInf
      [] OTHER -> FMul(x, FInvFin(y))

----------------------------------------------------------------------------
(* numpy arrays of shape (n,): sequences of float64 values.                *)

(* numpy broadcasting of two 1-d shapes: equal, or one of them 1. *)
Broadcastable(u, v) == Len(u) = Len(v) \/ Len(u) = 1 \/ Len(v) = 1

BroadcastLen(u, v) == IF Len(u) >= Len(v) THEN Len(u) ELSE Len(v)

At(u, i) == IF Len(u) = 1 THEN u[1] ELSE u[i]

VAdd(u, v) == [i \in 1..BroadcastLen(u, v) |-> FAdd(At(u, i), At(v, i))]
VSub(u, v) == [i \in 1..BroadcastLen(u, v) |-> FSub(At(u, i), At(v, i))]
VScale(u, c) == [i \in 1..Len(u) |-> FMul(u[i], c)]

RECURSIVE SumSquares(_, _)
SumSquares(u, i) ==
    IF i > Len(u) THEN FZero ELSE FAdd(FMul(u[i], u[i]), SumSquares(u, i + 1))

(* sqrt of a rational r >= 0, exactly: sqrt(n/d) = sqrt(n*d)/d. *)
SqrtRat(r) ==
    IF r[1] = 0 THEN FZero ELSE Radical(<<1, r[2]>>, r[1] * r[2])

(* np.linalg.norm of a 1-d array: the L2 norm. *)
Norm(u) ==
    IF \E i \in 1..Len(u) : u[i].k = "nan" THEN NaN
    ELSE IF \E i \in 1..Len(u) : u[i].k # "fin" THEN PosInf
    ELSE LET q == SumSquares(u, 1)
         IN  IF q.b = RZero THEN SqrtRat(q.a)
             ELSE CHOOSE z \in {} : TRUE      \* outside the exact number domain

----------------------------------------------------------------------------
(* Logarithms: a finite value is SUM c[p] * ln(p) over the primes p in     *)
(* DOMAIN c, with rational non-zero c[p]; k is the kind as for a float64. *)

NoPrimes == [p \in {} |-> RZero]

LcGet(c, p) == IF p \in DOMAIN c THEN c[p] ELSE RZero

LcAdd(c, e) ==
    LET dom == {p \in DOMAIN c \cup DOMAIN e : RAdd(LcGet(c, p), LcGet(e, p)) # RZero}
    IN  [p \in dom |-> RAdd(LcGet(c, p), LcGet(e, p))]

LcScale(c, r) ==
    IF r = RZero THEN NoPrimes ELSE [p \in DOMAIN c |-> RMul(c[p], r)]

(* ln(n) for an integer n >= 1, by trial division from p. *)
RECURSIVE LnIntFrom(_, _)
LnIntFrom(n, p) ==
    IF n = 1 THEN NoPrimes
    ELSE IF p * p > n THEN [q \in {n} |-> ROne]
    ELSE IF n % p = 0 THEN LcAdd([q \in {p} |-> ROne], LnIntFrom(n \div p, p))
    ELSE LnIntFrom(n, p + 1)

LnInt(n) == LnIntFrom(n, 2)

(* ln(n/d) = ln(n) - ln(d) for a rational n/d > 0. *)
LnRat(r) == LcAdd(LnInt(r[1]), LcScale(LnInt(r[2]), RInt(-1)))

LFin(c) == [k |-> "fin", c |-> c]
LNaN == [k |-> "nan", c |-> NoPrimes]
LPosInf == [k |-> "inf", c |-> NoPrimes]
LNegInf == [k |-> "ninf", c |-> NoPrimes]
LZero == LFin(NoPrimes)

RECURSIVE Pow(_, _)
Pow(b, e) == IF e = 0 THEN 1 ELSE b * Pow(b, e - 1)

RECURSIVE LcmOfDens(_, _)
LcmOfDens(c, ps) ==
    IF ps = {} THEN 1
    ELSE LET p == CHOOSE q \in ps : TRUE
             l == LcmOfDens(c, ps \ {p})
         IN  (l * c[p][2]) \div GCD(l, c[p][2])

RECURSIVE PowerProduct(_, _, _, _)
PowerProduct(c, ps, l, sg) ==
    IF ps = {} THEN 1
    ELSE LET p == CHOOSE q \in ps : TRUE
             e == (c[p][1] * l) \div c[p][2]
         IN  (IF e * sg > 0 THEN Pow(p, e * sg) ELSE 1) * PowerProduct(c, ps \ {p}, l, sg)

(* The sign of SUM c[p]*ln(p): compare the product of the primes with a   *)
(* positive exponent with that of the primes with a negative one.         *)
LcSign(c) ==
    LET l == LcmOfDens(c, DOMAIN c)
        up == PowerProduct(c, DOMAIN c, l, 1)
        down == PowerProduct(c, DOMAIN c, l, -1)
    IN  IF up > down THEN 1 ELSE IF up < down THEN -1 ELSE 0

LSign(x) ==
    CASE x.k = "nan" -> 0
      [] x.k = "inf" -> 1
      [] x.k = "ninf" -> -1
      [] OTHER -> LcSign(x.c)

(* np.log of a float64: log(0) = -inf and log(x < 0) = nan, as warnings. *)
Log(x) ==
    CASE x.k = "nan" -> LNaN
      [] x.k = "inf" -> LPosInf
      [] x.k = "ninf" -> LNaN
      [] FSign(x) = 0 -> LNegInf
      [] FSign(x) < 0 -> LNaN
      [] x.b = RZero -> LFin(LnRat(x.a))
      [] x.a = RZero ->
            \* ln(b*sqrt(s)) = ln(b) + ln(s)/2
            LFin(LcAdd(LnRat(x.b), LcScale(LnInt(x.s), <<1, 2>>)))
      [] OTHER -> CHOOSE z \in {} : TRUE      \* outside the exact number domain

LAdd(x, y) ==
    CASE x.k = "nan" \/ y.k = "nan" -> LNaN
      [] x.k = "inf" -> IF y.k = "ninf" THEN LNaN ELSE LPosInf
      [] x.k = "ninf" -> IF y.k = "inf" THEN LNaN ELSE LNegInf
      [] y.k = "inf" -> LPosInf
      [] y.k = "ninf" -> LNegInf
      [] OTHER -> LFin(LcAdd(x.c, y.c))

(* x / r for a rational float64 r (r = 0 gives inf, -inf or nan). *)
LDiv(x, r) ==
    LET sg == IF r = RZero THEN LSign(x) ELSE LSign(x) * RSign(r)
    IN  CASE x.k = "nan" -> LNaN
          [] r = RZero \/ x.k # "fin" ->
                IF sg = 0 THEN LNaN ELSE IF sg > 0 THEN LPosInf ELSE LNegInf
          [] OTHER -> LFin(LcScale(x.c, RInv(r)))

----------------------------------------------------------------------------
(* Bounds of the model and the inputs the caller draws from.               *)

MaxN == 2            \* N ranges over -1..MaxN
MaxPartTimeSteps == 2  \* part_time_steps ranges over -1..MaxPartTimeSteps
MaxCalls == 2        \* invocations the caller makes with the same objects

Vec(ints) == [i \in 1..Len(ints) |-> FInt(ints[i])]

StartingPoints == {Vec(<<1>>), Vec(<<1, 2>>)}

(* None, or an array holding the direction. *)
None == [none |-> TRUE, v |-> <<>>]
Array(v) == [none |-> FALSE, v |-> v]
Perturbations ==
    {None} \cup {Array(Vec(d)) : d \in {<<2>>, <<3, 4>>, <<1, 2, 2>>}}

DeviationScales == {FRat(<<-1, 1>>), FZero, FRat(<<1, 2>>)}
TimeSteps == {RZero, <<1, 2>>}

(* An iterator: its map, and whether it checks the shape of its argument  *)
(* (a map written for D components) or works elementwise on any shape.    *)
(* The maps: x/2, 2x and 0*x elementwise, and (x1, x2) -> (x2, x1/2).     *)
Iterators ==
    [map : {"half"}, checked : BOOLEAN]
        \cup [map : {"double", "collapse"}, checked : {FALSE}]
        \cup [map : {"swap"}, checked : {TRUE}]

(* The iterator is defined on all states of the starting point's shape. *)
IteratorFits(f, sp) == f.map = "swap" => Len(sp) = 2

----------------------------------------------------------------------------
(* The iterator: x(i+1) = F(x(i)).                                         *)

IterDefined(f, sp, x) ==
    IF f.map = "swap" THEN Len(x) = 2
    ELSE f.checked => Len(x) = Len(sp)

Half == FRat(<<1, 2>>)
Two == FInt(2)

iterator_func(f, x) ==
    CASE f.map = "half" -> VScale(x, Half)
      [] f.map = "double" -> VScale(x, Two)
      [] f.map = "collapse" -> VScale(x, FZero)
      [] f.map = "swap" -> <<x[2], FMul(x[1], Half)>>

----------------------------------------------------------------------------
(* largest_lyapunov_exponent, line by line.                                *)

Ones(n) == [i \in 1..n |-> FInt(1)]

(* line 42-43: the direction the call works on. *)
Direction(sp, pert) == IF pert.none THEN Ones(Len(sp)) ELSE pert.v

(* line 45: initial_perturbation *= deviation_scale/np.linalg.norm(...) *)
ScaledBySquaredNorm(v, ds) == VScale(v, FDiv(ds, SumSquares(v, 1)))
ScaledWithoutNorm(v, ds) == VScale(v, ds)
ScaledPerturbation(v, ds) == VScale(v, FDiv(ds, Norm(v)))

(* line 45 works in place: what the caller's object holds afterwards. *)
PerturbationAfterCall(pert, ds) ==
    IF pert.none THEN pert ELSE Array(ScaledPerturbation(pert.v, ds))

(* line 47: np.zeros(N) raises ValueError for N < 0. *)
ZerosDefined(N) == N >= 0
ZerosOneMore(N) == [i \in 1..(N + 1) |-> LZero]
Zeros(N) == [i \in 1..N |-> LZero]

(* line 50: starting_point + initial_perturbation raises ValueError when  *)
(* the two shapes do not broadcast.                                       *)
EntryDefined(sp, pert, N) ==
    ZerosDefined(N) /\ Broadcastable(sp, Direction(sp, pert))

PerturbedStart(sp, pert, ds) ==
    VAdd(sp, ScaledPerturbation(Direction(sp, pert), ds))

(* line 52: for i_n in range(N) *)
OuterLoopRuns(i, N) == i < N

(* line 53: for i_t in range(part_time_steps) *)
InnerLoopRunsInclusive(i, pts) == i <= pts
InnerLoopRuns(i, pts) == i < pts

(* line 56-58: the block's log-divergence. *)
LogDivergenceGuarded(x, xp, ds) ==
    IF Norm(VSub(xp, x)) = FZero THEN LZero ELSE Log(FDiv(Norm(VSub(xp, x)), ds))
LogDivergence(x, xp, ds) == Log(FDiv(Norm(VSub(xp, x)), ds))

(* line 59: x_pert = x + dx * (deviation_scale/norm_dx) *)
RenormalizedToUnit(x, xp, ds) ==
    VAdd(x, VScale(VSub(xp, x), FDiv(FInt(1), Norm(VSub(xp, x)))))
NotRenormalized(x, xp, ds) == VAdd(x, VSub(xp, x))
Renormalized(x, xp, ds) ==
    LET dx == VSub(xp, x)
    IN  VAdd(x, VScale(dx, FDiv(ds, Norm(dx))))

RECURSIVE SumTo(_, _)
SumTo(ld, k) == IF k = 0 THEN LZero ELSE LAdd(SumTo(ld, k - 1), ld[k])

(* np.cumsum *)
Cumsum(ld) == [k \in 1..Len(ld) |-> SumTo(ld, k)]

(* np.average: the mean of an empty array is nan. *)
SumInsteadOfAverage(ld) == SumTo(ld, Len(ld))
Average(ld) == IF Len(ld) = 0 THEN LNaN ELSE LDiv(SumTo(ld, Len(ld)), RInt(Len(ld)))

(* line 62: np.arange(1, N + 1) * dt * part_time_steps *)
ArangeFromZeroDtSteps(k, dt, pts) == RMul(RMul(RInt(k - 1), dt), RInt(pts))
ArangeDtSteps(k, dt, pts) == RMul(RMul(RInt(k), dt), RInt(pts))

(* line 62 *)
Convergence(ld, dt, pts) ==
    [k \in 1..Len(ld) |-> LDiv(Cumsum(ld)[k], ArangeDtSteps(k, dt, pts))]

(* line 64 *)
Scalar(ld, dt, pts) == LDiv(Average(ld), RMul(dt, RInt(pts)))

(* What an invocation leaves its caller with. *)
NoResult == [kind |-> "none", val |-> <<>>]
Raised == [kind |-> "error", val |-> <<>>]
ReturnValue(ld, dt, pts, rc) ==
    IF rc THEN [kind |-> "sequence", val |-> Convergence(ld, dt, pts)]
    ELSE [kind |-> "scalar", val |-> <<Scalar(ld, dt, pts)>>]

(* The iterator applied n times (range(n) is empty for n <= 0). *)
RECURSIVE Advance(_, _, _)
Advance(f, x, n) == IF n <= 0 THEN x ELSE Advance(f, iterator_func(f, x), n - 1)

(* lines 52-59: the blocks i+1..N, from the trajectories x and xp. *)
RECURSIVE Blocks(_, _, _, _, _, _, _, _)
Blocks(f, x, xp, ds, pts, ld, i, N) ==
    IF i >= N THEN ld
    ELSE LET x1 == Advance(f, x, pts)
             xp1 == Advance(f, xp, pts)
         IN  Blocks(f, x1, Renormalized(x1, xp1, ds), ds, pts,
                    [ld EXCEPT ![i + 1] = LogDivergence(x1, xp1, ds)], i + 1, N)

(* The whole call as a function of its arguments: what it returns, or     *)
(* that it raises.                                                        *)
largest_lyapunov_exponent(f, sp, ds, N, pts, dt, pert, rc) ==
    IF ~EntryDefined(sp, pert, N) THEN Raised
    ELSE IF N >= 1 /\ pts >= 1 /\ ~IterDefined(f, sp, PerturbedStart(sp, pert, ds))
    THEN Raised
    ELSE ReturnValue(Blocks(f, sp, PerturbedStart(sp, pert, ds), ds, pts, Zeros(N), 0, N),
                     dt, pts, rc)

(* The iterator calls a call makes (lines 52-55): none when lines 40-50   *)
(* raise, two when the iterator rejects x_pert, else 2*N*part_time_steps. *)
IteratorCallsOf(f, sp, ds, N, pts, pert) ==
    IF ~EntryDefined(sp, pert, N) \/ N < 1 \/ pts < 1 THEN 0
    ELSE IF ~IterDefined(f, sp, PerturbedStart(sp, pert, ds)) THEN 2
    ELSE 2 * N * pts

----------------------------------------------------------------------------
(* The signature of largest_lyapunov_exponent (measures.py 8-16) and how  *)
(* Python binds the arguments of a call to it.                            *)

EstimatorParameters ==
    <<"iterator_func", "starting_point", "deviation_scale", "N", "part_time_steps",
      "dt", "initial_perturbation", "return_convergence">>

(* The parameters without a default. *)
RequiredParameters == {"iterator_func", "starting_point"}

ParameterNames == {EstimatorParameters[i] : i \in 1..Len(EstimatorParameters)}

(* The parameters with a default: the options of the estimator. *)
OptionNames == ParameterNames \ RequiredParameters

DefaultN == 100000
DefaultPartTimeSteps == 10

(* A call with npos positional arguments and the keyword arguments kw     *)
(* binds when every keyword names a parameter that no positional argument *)
(* fills and every parameter without a default is filled; else Python     *)
(* raises TypeError before the body runs.                                 *)
BindingDefined(npos, kw) ==
    /\ npos <= Len(EstimatorParameters)
    /\ DOMAIN kw \subseteq ParameterNames
    /\ \A i \in 1..npos : EstimatorParameters[i] \notin DOMAIN kw
    /\ RequiredParameters \subseteq
          {EstimatorParameters[i] : i \in 1..npos} \cup DOMAIN kw

----------------------------------------------------------------------------
(* The app's path to the estimator (streamlit_fragments.py 185-227).      *)

MaxSteps == 2        \* the "steps" widget ranges over 0..MaxSteps
MaxStepsSkip == 1    \* the "steps to skip" widget ranges over 0..MaxStepsSkip

(* A simulation instance: iterate, default_starting_point, and dt when    *)
(* the class has one.                                                     *)
Systems ==
    {s \in [iterate : Iterators, default_starting_point : StartingPoints,
            has_dt : BOOLEAN, dt : {<<1, 2>>}] :
        IteratorFits(s.iterate, s.default_starting_point)}

(* line 216: 10 ** log_deviation_scale, for the widget values 0 and -1. *)
LogDeviationScales == {-1, 0}
TenTo(e) == IF e = 0 THEN FInt(1) ELSE FRat(<<1, 10>>)

(* lines 209-216: what the four widgets give. *)
WidgetInputs ==
    [steps : 0..MaxSteps, part_time_steps : 1..MaxPartTimeSteps,
     steps_skip : 0..MaxStepsSkip, log_deviation_scale : LogDeviationScales]

(* lines 192-195 *)
SystemDt(s) == IF s.has_dt THEN s.dt ELSE ROne

(* lines 198-202: the keyword arguments of the call to the estimator. *)
KeywordsWithN(s, inp) ==
    [starting_point |-> s.default_starting_point, dt |-> SystemDt(s),
     N |-> inp.steps, part_time_steps |-> inp.part_time_steps,
     deviation_scale |-> TenTo(inp.log_deviation_scale),
     return_convergence |-> TRUE]
CallKeywords(s, inp) ==
    [starting_point |-> s.default_starting_point, dt |-> SystemDt(s),
     steps |-> inp.steps, part_time_steps |-> inp.part_time_steps,
     deviation_scale |-> TenTo(inp.log_deviation_scale),
     steps_skip |-> inp.steps_skip,
     return_convergence |-> TRUE]

(* The value a parameter is bound to: the keyword's, or the default. *)
Argument(kw, name, default) == IF name \in DOMAIN kw THEN kw[name] ELSE default

TypeError == [kind |-> "TypeError", val |-> <<>>]

(* lines 186-203: what get_largest_lyapunov_exponent gives its caller;    *)
(* the call at line 198 passes iterator_func positionally.                *)
get_largest_lyapunov_exponent(s, inp) ==
    LET kw == CallKeywords(s, inp)
    IN  IF ~BindingDefined(1, kw) THEN TypeError
        ELSE largest_lyapunov_exponent(s.iterate, kw.starting_point,
                 kw.deviation_scale, Argument(kw, "N", DefaultN),
                 Argument(kw, "part_time_steps", DefaultPartTimeSteps),
                 Argument(kw, "dt", ROne), Argument(kw, "initial_perturbation", None),
                 Argument(kw, "return_convergence", FALSE))

(* The iterator calls made on the way. *)
IteratorCallsOfGet(s, inp) ==
    LET kw == CallKeywords(s, inp)
    IN  IF ~BindingDefined(1, kw) THEN 0
        ELSE IteratorCallsOf(s.iterate, kw.starting_point, kw.deviation_scale,
                 Argument(kw, "N", DefaultN),
                 Argument(kw, "part_time_steps", DefaultPartTimeSteps),
                 Argument(kw, "initial_perturbation", None))

----------------------------------------------------------------------------
(* State.                                                                  *)

VARIABLES
    args,                  \* iterator_func, deviation_scale, N, part_time_steps, dt, return_convergence
    starting_point,        \* the caller's starting_point array
    initial_perturbation,  \* the caller's initial_perturbation object
    pc,                    \* "idle", "x" (line 52-54), "pert" (line 55), "returned", "raised"
    x, x_pert,             \* the two trajectories
    log_divergence,
    i_n, i_t,              \* the loop indices
    calls_x, calls_pert,   \* iterator calls of this invocation, per trajectory
    result,                \* the outcome of the invocation
    outcomes,              \* the outcomes of the invocations made so far
    passed_perturbation,   \* what initial_perturbation held when the invocation began
    norm_history,          \* norm_dx of the blocks of the invocation, in order
    dx                     \* line 56: the divergence of the last block, as measured

VARIABLES
    st_pc,                 \* st_largest_lyapunov_exponent: "idle", "inputs", "shown", "raised"
    st_system,             \* the simulation instance of the selected system
    st_inputs,             \* what the widgets gave
    lle_conv,              \* line 218: the convergence trace the app holds
    st_error,              \* the exception that left the handler
    st_iterator_calls,     \* iterator calls made for the handler's run
    memo                   \* st.experimental_memo: the calls that returned, with their value

st_vars == <<st_pc, st_system, st_inputs, lle_conv, st_error, st_iterator_calls, memo>>

NoSystem == CHOOSE s \in Systems : TRUE
NoInputs == CHOOSE inp \in WidgetInputs : TRUE

(* The app before the handler has run. *)
StIdle ==
    /\ st_pc = "idle"
    /\ st_inputs = NoInputs
    /\ lle_conv = NoResult
    /\ st_error = "none"
    /\ st_iterator_calls = 0
    /\ memo = {}

vars == <<args, starting_point, initial_perturbation, pc, x, x_pert, log_divergence,
          i_n, i_t, calls_x, calls_pert, result, outcomes, passed_perturbation,
          norm_history, dx>>

Init ==
    /\ \E f \in Iterators, ds \in DeviationScales, n \in -1..MaxN,
          pts \in -1..MaxPartTimeSteps, dt \in TimeSteps, rc \in BOOLEAN :
            args = [iterator_func |-> f, deviation_scale |-> ds, N |-> n,
                    part_time_steps |-> pts, dt |-> dt, return_convergence |-> rc]
    /\ starting_point \in StartingPoints
    /\ initial_perturbation \in Perturbations
    /\ IteratorFits(args.iterator_func, starting_point)
    /\ pc = "idle"
    /\ x = <<>>
    /\ x_pert = <<>>
    /\ log_divergence = <<>>
    /\ i_n = 0
    /\ i_t = 0
    /\ calls_x = 0
    /\ calls_pert = 0
    /\ result = NoResult
    /\ outcomes = <<>>
    /\ passed_perturbation = initial_perturbation
    /\ norm_history = <<>>
    /\ dx = <<>>
    /\ st_system = NoSystem
    /\ StIdle

(* lines 40-50: the call up to the main loop. *)
Call ==
    /\ pc \in {"idle", "returned", "raised"}
    /\ Len(outcomes) < MaxCalls
    /\ initial_perturbation' = PerturbationAfterCall(initial_perturbation, args.deviation_scale)
    /\ passed_perturbation' = initial_perturbation
    /\ norm_history' = <<>>
    /\ dx' = <<>>
    /\ calls_x' = 0
    /\ calls_pert' = 0
    /\ i_n' = 0
    /\ i_t' = 0
    /\ IF EntryDefined(starting_point, initial_perturbation, args.N)
       THEN /\ pc' = "x"
            /\ log_divergence' = Zeros(args.N)
            /\ x' = starting_point
            /\ x_pert' = PerturbedStart(starting_point, initial_perturbation,
                                        args.deviation_scale)
            /\ result' = NoResult
            /\ outcomes' = outcomes
       ELSE /\ pc' = "raised"
            /\ log_divergence' = <<>>
            /\ x' = <<>>
            /\ x_pert' = <<>>
            /\ result' = Raised
            /\ outcomes' = Append(outcomes, Raised)
    /\ UNCHANGED <<args, starting_point>>
    /\ UNCHANGED st_vars

(* line 54: x = iterator_func(x) *)
IterateX ==
    /\ pc = "x"
    /\ OuterLoopRuns(i_n, args.N)
    /\ InnerLoopRuns(i_t, args.part_time_steps)
    /\ calls_x' = calls_x + 1
    /\ IF IterDefined(args.iterator_func, starting_point, x)
       THEN /\ x' = iterator_func(args.iterator_func, x)
            /\ pc' = "pert"
            /\ UNCHANGED <<result, outcomes>>
       ELSE /\ pc' = "raised"
            /\ result' = Raised
            /\ outcomes' = Append(outcomes, Raised)
            /\ UNCHANGED x
    /\ UNCHANGED <<args, starting_point, initial_perturbation, x_pert, log_divergence,
                   i_n, i_t, calls_pert, passed_perturbation, norm_history, dx>>
    /\ UNCHANGED st_vars

(* line 55: x_pert = iterator_func(x_pert) *)
IteratePert ==
    /\ pc = "pert"
    /\ calls_pert' = calls_pert + 1
    /\ IF IterDefined(args.iterator_func, starting_point, x_pert)
       THEN /\ x_pert' = iterator_func(args.iterator_func, x_pert)
            /\ pc' = "x"
            /\ i_t' = i_t + 1
            /\ UNCHANGED <<result, outcomes>>
       ELSE /\ pc' = "raised"
            /\ result' = Raised
            /\ outcomes' = Append(outcomes, Raised)
            /\ UNCHANGED <<x_pert, i_t>>
    /\ UNCHANGED <<args, starting_point, initial_perturbation, x, log_divergence,
                   i_n, calls_x, passed_perturbation, norm_history, dx>>
    /\ UNCHANGED st_vars

(* lines 56-59: measure the divergence of the block and renormalise. *)
Renormalize ==
    /\ pc = "x"
    /\ OuterLoopRuns(i_n, args.N)
    /\ ~InnerLoopRuns(i_t, args.part_time_steps)
    /\ log_divergence' = [log_divergence EXCEPT
                            ![i_n + 1] = LogDivergence(x, x_pert, args.deviation_scale)]
    /\ x_pert' = Renormalized(x, x_pert, args.deviation_scale)
    /\ norm_history' = Append(norm_history, Norm(VSub(x_pert, x)))
    /\ dx' = VSub(x_pert, x)
    /\ i_n' = i_n + 1
    /\ i_t' = 0
    /\ UNCHANGED <<args, starting_point, initial_perturbation, pc, x, calls_x,
                   calls_pert, result, outcomes, passed_perturbation>>
    /\ UNCHANGED st_vars

(* lines 61-64 *)
Return ==
    /\ pc = "x"
    /\ ~OuterLoopRuns(i_n, args.N)
    /\ pc' = "returned"
    /\ result' = ReturnValue(log_divergence, args.dt, args.part_time_steps,
                             args.return_convergence)
    /\ outcomes' = Append(outcomes, result')
    /\ UNCHANGED <<args, starting_point, initial_perturbation, x, x_pert,
                   log_divergence, i_n, i_t, calls_x, calls_pert, passed_perturbation,
                   norm_history, dx>>
    /\ UNCHANGED st_vars

Next == Call \/ IterateX \/ IteratePert \/ Renormalize \/ Return

Spec == Init /\ [][Next]_vars

----------------------------------------------------------------------------
(* The state machine and the function agree on what an invocation gives.  *)
StepsMatchFunction ==
    pc \in {"returned", "raised"} =>
        result = largest_lyapunov_exponent(args.iterator_func, starting_point,
                     args.deviation_scale, args.N, args.part_time_steps, args.dt,
                     passed_perturbation, args.return_convergence)

----------------------------------------------------------------------------
(* Claims.                                                                 *)

InCall == pc \in {"x", "pert"}
IteratorCalls == calls_x + calls_pert
PositiveDt == RSign(args.dt) > 0
PositiveScale == FSign(args.deviation_scale) > 0

(* The configurations the specification calls invalid. *)
InvalidConfiguration ==
    args.N < 1 \/ args.part_time_steps < 1 \/ ~PositiveScale

(* C1: an invocation with N < 1, part_time_steps < 1 or deviation_scale   *)
(* <= 0 never returns a scalar or a sequence and never calls the iterator. *)
C1_InvalidConfigurationRejected ==
    InvalidConfiguration => (pc # "returned" /\ IteratorCalls = 0)

ShapeMismatch ==
    ~passed_perturbation.none /\ Len(passed_perturbation.v) # Len(starting_point)

(* C2: once called with an initial_perturbation whose dimension differs   *)
(* from starting_point's, the invocation has raised, without an iterator  *)
(* call and without forming a broadcast x_pert.                           *)
C2_ShapeMismatchRejected ==
    (ShapeMismatch /\ pc # "idle") => (pc = "raised" /\ IteratorCalls = 0)

(* C3: for N >= 1, part_time_steps >= 1 and dt > 0, the last entry of the *)
(* returned convergence sequence is what the call returns in scalar mode  *)
(* for the same other arguments.                                          *)
C3_LastConvergenceIsScalar ==
    (pc = "returned" /\ args.return_convergence /\ args.N >= 1
        /\ args.part_time_steps >= 1 /\ PositiveDt) =>
        <<result.val[args.N]>> =
            largest_lyapunov_exponent(args.iterator_func, starting_point,
                args.deviation_scale, args.N, args.part_time_steps, args.dt,
                passed_perturbation, FALSE).val

C3_Witness ==
    /\ pc = "returned" /\ args.return_convergence /\ PositiveDt
    /\ args.N >= 2 /\ args.part_time_steps >= 1
    /\ result.val[args.N].k = "fin"
    /\ result.val[args.N] # LZero
    /\ result.val[args.N] # result.val[1]

(* C4: during and after a call log_divergence has exactly N entries;      *)
(* after i_n blocks its first i_n entries are those of the blocks 1..i_n  *)
(* in order and the others are unwritten; a call returns after N blocks,  *)
(* and in convergence mode it returns N entries.                          *)
C4_LogDivergenceHasNEntries ==
    (InCall \/ pc = "returned") =>
        /\ Len(log_divergence) = args.N
        /\ Len(norm_history) = i_n
        /\ \A k \in 1..Len(log_divergence) :
              log_divergence[k] =
                  IF k <= i_n THEN Log(FDiv(norm_history[k], args.deviation_scale))
                  ELSE LZero
        /\ pc = "returned" =>
              /\ i_n = args.N
              /\ args.return_convergence =>
                    (result.kind = "sequence" /\ Len(result.val) = args.N)

C4_Witness ==
    /\ pc = "returned" /\ args.return_convergence
    /\ args.N >= 2 /\ Len(result.val) = args.N
    /\ log_divergence[1] # log_divergence[2]

(* C5: with part_time_steps >= 0, at every block boundary both            *)
(* trajectories have been advanced i_n * part_time_steps times, within a  *)
(* block the reference trajectory is at most one call ahead, and a call   *)
(* that returns has made 2 * N * part_time_steps iterator calls.          *)
C5_IteratorCallCounts ==
    args.part_time_steps >= 0 =>
        /\ pc = "x" =>
              (calls_x = i_n * args.part_time_steps + i_t /\ calls_pert = calls_x)
        /\ pc = "pert" =>
              (calls_x = i_n * args.part_time_steps + i_t + 1 /\ calls_pert = calls_x - 1)
        /\ (pc = "x" /\ i_t = 0) => calls_x = i_n * args.part_time_steps
        /\ pc = "returned" => IteratorCalls = 2 * args.N * args.part_time_steps

C5_Witness ==
    /\ pc = "returned" /\ args.N >= 2 /\ args.part_time_steps >= 2
    /\ calls_x = args.N * args.part_time_steps
    /\ calls_pert = calls_x

(* C6: every invocation the caller makes with the same argument objects   *)
(* ends as the first one did: the same error, or the same value.          *)
C6_RepeatedCallsAgree ==
    \A i \in 1..Len(outcomes) : outcomes[i] = outcomes[1]

(* The second invocation has returned a finite non-zero scalar, and the   *)
(* initial_perturbation object it was given held what the first one left. *)
C6_Witness ==
    /\ Len(outcomes) = 2
    /\ ~passed_perturbation.none
    /\ passed_perturbation \notin Perturbations
    /\ outcomes[2].kind = "scalar"
    /\ outcomes[2].val[1].k = "fin"
    /\ outcomes[2].val[1] # LZero

(* The positive constants a direction is scaled by. *)
Scales == {FInt(3), FRat(<<1, 2>>)}

ScaledArgument(c) == Array(VScale(passed_perturbation.v, c))

(* C7: with initial_perturbation = v supplied, the perturbed start state, *)
(* the log-divergence entries and the outcome of the call are those of    *)
(* the call with initial_perturbation = c*v, for each c in Scales.        *)
C7_PerturbationScaleInvariant ==
    ~passed_perturbation.none =>
        \A c \in Scales :
            /\ (pc = "x" /\ i_n = 0 /\ IteratorCalls = 0) =>
                  x_pert = PerturbedStart(starting_point, ScaledArgument(c),
                                          args.deviation_scale)
            /\ pc = "returned" =>
                  log_divergence =
                      Blocks(args.iterator_func, starting_point,
                             PerturbedStart(starting_point, ScaledArgument(c),
                                            args.deviation_scale),
                             args.deviation_scale, args.part_time_steps,
                             Zeros(args.N), 0, args.N)
            /\ pc \in {"returned", "raised"} =>
                  result = largest_lyapunov_exponent(args.iterator_func, starting_point,
                               args.deviation_scale, args.N, args.part_time_steps,
                               args.dt, ScaledArgument(c), args.return_convergence)

C7_Witness ==
    /\ pc = "returned"
    /\ Len(outcomes) = 1
    /\ passed_perturbation = Array(Vec(<<3, 4>>))
    /\ args.N >= 2
    /\ result.kind = "sequence"
    /\ result.val[1].k = "fin"
    /\ result.val[1] # result.val[2]

NonFinite(l) == l.k # "fin"

(* C8: when norm_dx of a block was zero the invocation has not raised,    *)
(* the block's log-divergence entry is non-finite, and the invocation     *)
(* returns only after all N blocks, a value with a non-finite entry.      *)
C8_ZeroNormPropagates ==
    \A k \in 1..Len(norm_history) :
        norm_history[k] = FZero =>
            /\ pc # "raised"
            /\ NonFinite(log_divergence[k])
            /\ pc = "returned" =>
                  /\ Len(norm_history) = args.N
                  /\ \E j \in 1..Len(result.val) : NonFinite(result.val[j])

C8_Witness ==
    /\ pc = "returned"
    /\ PositiveScale
    /\ args.N >= 2
    /\ norm_history[1] = FZero
    /\ log_divergence[1] = LNegInf
    /\ \E j \in 1..Len(result.val) : NonFinite(result.val[j])

(* C9: an invocation that raises has not called the iterator. *)
C9_NoFailureAfterIteratorCall ==
    pc = "raised" => IteratorCalls = 0

(* ln(0.5) *)
LnHalf == Log(Half)

(* C10: for the map x -> x/2, with deviation_scale > 0, N >= 1,           *)
(* part_time_steps >= 1, dt > 0 and a direction of starting_point's       *)
(* dimension (or none): every block's log-divergence is                   *)
(* part_time_steps * ln(0.5), and every returned value (the scalar, or    *)
(* each entry of the sequence) is ln(0.5)/dt, which is negative.          *)
C10_ContractionGivesLnHalf ==
    (args.iterator_func.map = "half" /\ PositiveScale /\ PositiveDt
        /\ args.N >= 1 /\ args.part_time_steps >= 1 /\ ~ShapeMismatch) =>
        /\ (InCall \/ pc = "returned") =>
              \A k \in 1..i_n :
                  log_divergence[k] =
                      LFin(LcScale(LnHalf.c, RInt(args.part_time_steps)))
        /\ pc = "returned" =>
              \A j \in 1..Len(result.val) :
                  /\ result.val[j] = LDiv(LnHalf, args.dt)
                  /\ LSign(result.val[j]) < 0

C10_Witness ==
    /\ pc = "returned"
    /\ args.iterator_func.map = "half" /\ PositiveScale /\ PositiveDt
    /\ args.N >= 2 /\ args.part_time_steps >= 2
    /\ Len(starting_point) = 2
    /\ passed_perturbation = Array(Vec(<<3, 4>>))
    /\ result = [kind |-> "scalar", val |-> <<LDiv(LnHalf, args.dt)>>]

(* The states right after lines 40-50 and right after line 59. *)
AfterInitialization == pc = "x" /\ i_n = 0 /\ i_t = 0 /\ IteratorCalls = 0
AfterRenormalization == pc = "x" /\ i_n >= 1 /\ i_t = 0

Distance == Norm(VSub(x_pert, x))

(* deviation_scale > 0 and a direction of starting_point's dimension. *)
ValidPerturbation == PositiveScale /\ ~ShapeMismatch

RECURSIVE SumOfEntries(_, _, _)
SumOfEntries(ld, j, k) ==
    IF j > k THEN LZero ELSE LAdd(ld[j], SumOfEntries(ld, j + 1, k))

(* ln(norm_dx / deviation_scale) of block k, norm_dx as measured at line  *)
(* 57, before line 59 renormalises.                                       *)
RecordedLogDivergence(k) == Log(FDiv(norm_history[k], args.deviation_scale))

DtTimesSteps == RMul(RInt(args.part_time_steps), args.dt)

(* C12: a call that returns has recorded ln(norm_dx/deviation_scale) of   *)
(* each block; in scalar mode (N >= 1) it returns the mean of the N       *)
(* records over dt*part_time_steps, in convergence mode the sum of the    *)
(* first k records over k*dt*part_time_steps, for k = 1..N.               *)
C12_AggregationFormulas ==
    pc = "returned" =>
        /\ \A k \in 1..args.N : log_divergence[k] = RecordedLogDivergence(k)
        /\ (~args.return_convergence /\ args.N >= 1) =>
              result = [kind |-> "scalar",
                        val |-> <<LDiv(LDiv(SumOfEntries(log_divergence, 1, args.N),
                                            RInt(args.N)),
                                       DtTimesSteps)>>]
        /\ args.return_convergence =>
              /\ result.kind = "sequence"
              /\ DOMAIN result.val = 1..args.N
              /\ \A k \in 1..args.N :
                    result.val[k] =
                        LDiv(SumOfEntries(log_divergence, 1, k),
                             RMul(RInt(k), DtTimesSteps))

C12_Witness ==
    /\ pc = "returned"
    /\ ~args.return_convergence
    /\ args.iterator_func.map = "swap"
    /\ args.N >= 2 /\ args.part_time_steps >= 1 /\ PositiveDt /\ PositiveScale
    /\ log_divergence[1] # log_divergence[2]
    /\ result.val[1].k = "fin"
    /\ result.val[1] # LZero

(* C13: no step of an invocation changes what the caller's starting_point *)
(* array and initial_perturbation object hold.                            *)
C13_ArgumentsUnchanged ==
    [][starting_point' = starting_point
        /\ initial_perturbation' = initial_perturbation]_vars

----------------------------------------------------------------------------
(* The app's handler st_largest_lyapunov_exponent, run on each rerun of   *)
(* the script while its checkbox is ticked (streamlit_app.py main).       *)

(* The estimator is only reached through the handler: it stays idle. *)
EstimatorIdle ==
    /\ args = [iterator_func |-> NoSystem.iterate, deviation_scale |-> FZero, N |-> 0,
               part_time_steps |-> 0, dt |-> RZero, return_convergence |-> FALSE]
    /\ starting_point = NoSystem.default_starting_point
    /\ initial_perturbation = None
    /\ pc = "idle"
    /\ x = <<>>
    /\ x_pert = <<>>
    /\ log_divergence = <<>>
    /\ i_n = 0
    /\ i_t = 0
    /\ calls_x = 0
    /\ calls_pert = 0
    /\ result = NoResult
    /\ outcomes = <<>>
    /\ passed_perturbation = None
    /\ norm_history = <<>>
    /\ dx = <<>>

AppInit ==
    /\ EstimatorIdle
    /\ st_system \in Systems
    /\ StIdle

(* lines 207-216: a run of the script reads the four widgets. *)
StReadInputs ==
    /\ st_pc \in {"idle", "shown", "raised"}
    /\ st_inputs' \in WidgetInputs
    /\ st_pc' = "inputs"
    /\ lle_conv' = NoResult
    /\ st_error' = "none"
    /\ st_iterator_calls' = 0
    /\ UNCHANGED <<st_system, memo>>
    /\ UNCHANGED vars

(* lines 218-227, with get_largest_lyapunov_exponent (185-203): the       *)
(* memoised call, then the plot and lle_conv[-1].                         *)
StGetAndShow ==
    /\ st_pc = "inputs"
    /\ LET key == [system |-> st_system, inputs |-> st_inputs]
           cached == \E m \in memo : m.key = key
           out == IF cached THEN (CHOOSE m \in memo : m.key = key).value
                  ELSE get_largest_lyapunov_exponent(st_system, st_inputs)
       IN  /\ st_iterator_calls' =
                 IF cached THEN 0 ELSE IteratorCallsOfGet(st_system, st_inputs)
           /\ IF out.kind = "sequence"
              THEN /\ lle_conv' = out
                   /\ memo' = memo \cup {[key |-> key, value |-> out]}
                   /\ IF Len(out.val) >= 1
                      THEN st_pc' = "shown" /\ st_error' = "none"
                      ELSE st_pc' = "raised" /\ st_error' = "IndexError"
              ELSE /\ lle_conv' = NoResult
                   /\ memo' = memo
                   /\ st_pc' = "raised"
                   /\ st_error' = IF out = TypeError THEN "TypeError" ELSE "ValueError"
    /\ UNCHANGED <<st_system, st_inputs>>
    /\ UNCHANGED vars

AppNext == StReadInputs \/ StGetAndShow

AppSpec == AppInit /\ [][AppNext]_<<vars, st_vars>>

(* C14: the app's call passes the keywords steps and steps_skip, which    *)
(* are not among the estimator's parameters (its options are exactly the  *)
(* six with a default), so every run of the handler ends in TypeError     *)
(* before any iterator call, and the app never holds a convergence trace. *)
C14_AppNeverObtainsTrace ==
    /\ OptionNames = {"deviation_scale", "N", "part_time_steps", "dt",
                      "initial_perturbation", "return_convergence"}
    /\ lle_conv = NoResult
    /\ memo = {}
    /\ st_pc # "shown"
    /\ st_pc \in {"inputs", "raised"} =>
          {"steps", "steps_skip"} \subseteq
              DOMAIN CallKeywords(st_system, st_inputs) \ ParameterNames
    /\ st_pc = "raised" => st_error = "TypeError" /\ st_iterator_calls = 0

C14_Witness ==
    /\ st_pc = "raised"
    /\ st_error = "TypeError"
    /\ st_inputs.steps >= 1
    /\ st_inputs.steps_skip < st_inputs.steps
    /\ st_iterator_calls = 0
====
